---- MODULE Spec2Model ----
(***************************************************************************)
(* Model of wikidump's probabilistic user-warning extractor                *)
(* (processors/user_warnings_probabilistic_templates_extractor.py):        *)
(* extract_pages driving extract_revisions over a dump, with the run       *)
(* statistics kept in stats.                                               *)
(*                                                                         *)
(* The dump is a sequence of pages whose namespaces are fixed at the       *)
(* start; the revisions of a page are a stream read one at a time, so      *)
(* dump[i].revisions holds the revisions read so far of the page being     *)
(* scanned and is forgotten (the stream is consumed) when the next page    *)
(* is taken.  The features file is abstracted to the ids of the pages      *)
(* written to it, in order; the Page object last built is kept in page.    *)
(*                                                                         *)
(* extract_templates_words and build_trie, which main() runs before the    *)
(* scan, have their own specification, SpecTokens: the token files are     *)
(* opened one after the other, the content of a file is fixed when it is   *)
(* opened, and its lines are read one at a time.                           *)
(***************************************************************************)
EXTENDS Integers, Sequences, FiniteSets, TLC

\* Bounds of the model.
MaxPages == 2
MaxRevs == 2
MaxTime == 2
MaxFiles == 2
MaxLines == 2

\* Namespaces a page of the dump may have; 3 is the user-talk namespace.
Namespaces == {0, 3}

\* Template names known to the templates dictionary.
TemplateNames == {"t1", "t2"}

\* Revision texts, told apart only by what the matcher finds in them.
Texts == {"plain", "warn1", "warn2and1"}

\* Instants a revision may be stamped with.
Timestamps == 1..MaxTime

VARIABLES
    only_last_revision,                 \* args.only_last_revision
    only_pages_with_user_warnings,      \* args.only_pages_with_user_warnings
    only_revisions_with_user_warnings,  \* args.only_revisions_with_user_warnings
    dump,                \* the pages of the dump
    page_index,          \* number of pages taken from the dump so far
    pc,                  \* "pages": top of the page loop; "revisions": inside
                         \* extract_revisions; "done": extract_pages returned
    newest_revision,     \* extract_revisions' held newest revision, or None
    is_last_revision,    \* the revision last scanned was the final one
    revisions_list,      \* the revisions yielded so far for the current page
    page,                \* the Page object last built by extract_pages
    stats,               \* the run statistics
    output,              \* ids of the pages yielded, in order
    twin_stats,          \* statistics of the same run over the same dump with
                         \* only_pages_with_user_warnings negated
    twin_break,          \* whether that run has left the page loop
    files_opened,        \* number of token files opened so far
    file,                \* the lines of the token file last opened
    line_index,          \* number of lines of that file read so far
    tokens_pc,           \* "files": top of the file loop; "lines": inside the
                         \* line loop; "trie": extract_templates_words
                         \* returned; "done": build_trie returned
    template_dictionary, \* template title -> list of (words, timestamp)
    trie                 \* the automaton: word -> value stored for it

\* The variables of extract_templates_words and build_trie.
tokens_vars == <<files_opened, file, line_index, tokens_pc,
                 template_dictionary, trie>>

\* The variables of extract_pages and extract_revisions.
pages_vars == <<only_last_revision, only_pages_with_user_warnings,
                only_revisions_with_user_warnings, dump, page_index, pc,
                newest_revision, is_last_revision, revisions_list, page,
                stats, output, twin_stats, twin_break>>

vars == <<only_last_revision, only_pages_with_user_warnings,
          only_revisions_with_user_warnings, dump, page_index, pc,
          newest_revision, is_last_revision, revisions_list, page, stats,
          output, twin_stats, twin_break, tokens_vars>>

flags == <<only_last_revision, only_pages_with_user_warnings,
           only_revisions_with_user_warnings>>

----------------------------------------------------------------------------
\* Pure helpers.

\* The value of newest_revision before any revision has been scanned.
None == [id |-> 0, timestamp |-> <<0, 0>>, templates |-> <<>>]

\* The Page object before any page has been built.
NoPage == [id |-> 0, namespace |-> 0, revisions |-> <<>>]

\* Timestamp.to_json(): the instant written as a fixed-width digit string.
to_json(t) == <<t \div 10, t % 10>>

\* datetime.fromisoformat(s.replace('Z', '+00:00')): the instant a string denotes.
fromisoformat(s) == s[1] * 10 + s[2]

\* The matcher: the templates judged present in a revision text.
extract_probabilistic_user_warning_templates(text) ==
    CASE text = "plain" -> <<>>
      [] text = "warn1" -> <<"t1">>
      [] OTHER -> <<"t2", "t1">>

\* The Revision object built for a revision of the dump.
Revision(mw_revision) ==
    [id |-> mw_revision.id,
     timestamp |-> to_json(mw_revision.timestamp),
     templates |-> extract_probabilistic_user_warning_templates(mw_revision.text)]

\* NewestRevision with the held revision replaced on equal timestamps too.
NewestRevision_OnTies(newest, rev) ==
    IF newest = None
    THEN rev
    ELSE IF fromisoformat(newest.timestamp) <= fromisoformat(rev.timestamp)
         THEN rev
         ELSE newest

\* The held newest revision after rev has been compared with it.
NewestRevision(newest, rev) ==
    IF newest = None
    THEN rev
    ELSE IF fromisoformat(newest.timestamp) < fromisoformat(rev.timestamp)
         THEN rev
         ELSE newest

\* YieldedRevisions with the last-revision branches yielding the revision
\* just scanned instead of the held newest one.
YieldedRevisions_DumpLast(only_last, only_with_warnings, newest, rev, is_last) ==
    IF only_last
    THEN IF only_with_warnings
         THEN IF newest.templates # <<>> /\ is_last THEN <<rev>> ELSE <<>>
         ELSE IF is_last THEN <<rev>> ELSE <<>>
    ELSE IF only_with_warnings
         THEN IF rev.templates # <<>> THEN <<rev>> ELSE <<>>
         ELSE <<rev>>

\* YieldedRevisions with the last-revision filter gated by the matches of the
\* revision just scanned instead of those of the held newest one.
YieldedRevisions_GateCurrent(only_last, only_with_warnings, newest, rev, is_last) ==
    IF only_last
    THEN IF only_with_warnings
         THEN IF rev.templates # <<>> /\ is_last THEN <<newest>> ELSE <<>>
         ELSE IF is_last THEN <<newest>> ELSE <<>>
    ELSE IF only_with_warnings
         THEN IF rev.templates # <<>> THEN <<rev>> ELSE <<>>
         ELSE <<rev>>

\* YieldedRevisions with the is_last_revision test of the plain last-revision
\* branch dropped.
YieldedRevisions_EveryIteration(only_last, only_with_warnings, newest, rev, is_last) ==
    IF only_last
    THEN IF only_with_warnings
         THEN IF newest.templates # <<>> /\ is_last THEN <<newest>> ELSE <<>>
         ELSE <<newest>>
    ELSE IF only_with_warnings
         THEN IF rev.templates # <<>> THEN <<rev>> ELSE <<>>
         ELSE <<rev>>

\* YieldedRevisions with the unfiltered branch yielding the held newest
\* revision instead of the revision just scanned.
YieldedRevisions_NewestInElse(only_last, only_with_warnings, newest, rev, is_last) ==
    IF only_last
    THEN IF only_with_warnings
         THEN IF newest.templates # <<>> /\ is_last THEN <<newest>> ELSE <<>>
         ELSE IF is_last THEN <<newest>> ELSE <<>>
    ELSE IF only_with_warnings
         THEN IF rev.templates # <<>> THEN <<rev>> ELSE <<>>
         ELSE <<newest>>

\* YieldedRevisions with the with-warnings branch gated by the matches of the
\* held newest revision instead of those of the revision just scanned.
YieldedRevisions_GateNewest(only_last, only_with_warnings, newest, rev, is_last) ==
    IF only_last
    THEN IF only_with_warnings
         THEN IF newest.templates # <<>> /\ is_last THEN <<newest>> ELSE <<>>
         ELSE IF is_last THEN <<newest>> ELSE <<>>
    ELSE IF only_with_warnings
         THEN IF newest.templates # <<>> THEN <<rev>> ELSE <<>>
         ELSE <<rev>>

\* The revisions one iteration of extract_revisions yields (none or one).
YieldedRevisions(only_last, only_with_warnings, newest, rev, is_last) ==
    IF only_last
    THEN IF only_with_warnings
         THEN IF newest.templates # <<>> /\ is_last THEN <<newest>> ELSE <<>>
         ELSE IF is_last THEN <<newest>> ELSE <<>>
    ELSE IF only_with_warnings
         THEN IF rev.templates # <<>> THEN <<rev>> ELSE <<>>
         ELSE <<rev>>

\* to_add: the distinct template names of the retained revisions.
to_add(revs) ==
    UNION {{revs[i].templates[j] : j \in DOMAIN revs[i].templates} :
           i \in DOMAIN revs}

RECURSIVE n_occurr(_)
\* n_occurr: the number of template matches in the retained revisions.
n_occurr(revs) ==
    IF revs = <<>> THEN 0
    ELSE Len(Head(revs).templates) + n_occurr(Tail(revs))

\* template_recognized after the names in keys have been counted for a page.
template_recognized_update(recognized, keys) ==
    [key \in DOMAIN recognized \cup keys |->
        IF key \in keys
        THEN (IF key \in DOMAIN recognized THEN recognized[key] ELSE 0) + 1
        ELSE recognized[key]]

\* total_update with the increment of the unfiltered branch left out.
total_update_OnlyWhenFiltered(total, n, only_pages) ==
    IF only_pages
    THEN IF n > 0 THEN total + 1 ELSE total
    ELSE total

\* user_warnings_stats.total after a page with n matches, under the page filter.
total_update(total, n, only_pages) ==
    IF only_pages
    THEN IF n > 0 THEN total + 1 ELSE total
    ELSE IF n > 0 THEN total + 1 ELSE total

\* page_yielded with the n_occurr test of the filtered branch dropped.
page_yielded_Always(n, only_pages) ==
    IF only_pages THEN TRUE ELSE TRUE

\* Whether extract_pages yields a page with n matches, under the page filter.
page_yielded(n, only_pages) ==
    IF only_pages THEN n > 0 ELSE TRUE

RECURSIVE recognized_per_revision(_, _)
\* template_recognized with the names counted once per retained revision.
recognized_per_revision(recognized, revs) ==
    IF revs = <<>> THEN recognized
    ELSE recognized_per_revision(
            template_recognized_update(recognized, to_add(<<Head(revs)>>)),
            Tail(revs))

\* page_counted with template_recognized counted per matching revision.
page_counted_PerRevision(st, revs, only_pages) ==
    [st EXCEPT
        !.user_warnings_stats.template_recognized =
            recognized_per_revision(@, revs),
        !.user_warnings_stats.total =
            total_update(@, n_occurr(revs), only_pages)]

\* The statistics after the page's templates and matches have been counted.
page_counted(st, revs, only_pages) ==
    [st EXCEPT
        !.user_warnings_stats.template_recognized =
            template_recognized_update(@, to_add(revs)),
        !.user_warnings_stats.total =
            total_update(@, n_occurr(revs), only_pages)]

\* loop_break with the page loop never left early.
loop_break_Never(st) == st.user_warnings_stats.total < 0

\* Whether the page loop is left after a page.
loop_break(st) == st.user_warnings_stats.total > 0

\* The statistics at the end of one iteration of the page loop.
page_done(st, revs, only_pages) ==
    LET counted == page_counted(st, revs, only_pages)
    IN  IF loop_break(counted)
        THEN counted
        ELSE [counted EXCEPT !.performance.pages_analyzed = @ + 1]

\* The statistics after one more revision has been scanned.
revision_analyzed(st) ==
    [st EXCEPT !.performance.revisions_analyzed = @ + 1]

\* The dump with the consumed revision stream of page i dropped.
consumed(d, i) ==
    IF i = 0 THEN d ELSE [d EXCEPT ![i].revisions = <<>>]

----------------------------------------------------------------------------
\* Initial state: main() before the first page is pulled.

ZeroStats ==
    [performance |-> [revisions_analyzed |-> 0, pages_analyzed |-> 0],
     user_warnings_stats |->
        [total |-> 0, template_recognized |-> [key \in {} |-> 0]]]

\* extract_templates_words before the first token file is opened.
TokensInit ==
    /\ files_opened = 0
    /\ file = <<>>
    /\ line_index = 0
    /\ tokens_pc = "files"
    /\ template_dictionary = [key \in {} |-> <<>>]
    /\ trie = [key \in {} |-> <<>>]

Dumps ==
    UNION {{[i \in 1..n |-> [id |-> i, namespace |-> ns[i], revisions |-> <<>>]] :
                ns \in [1..n -> Namespaces]} : n \in 0..MaxPages}

Init ==
    /\ only_last_revision \in BOOLEAN
    /\ only_pages_with_user_warnings \in BOOLEAN
    /\ only_revisions_with_user_warnings \in BOOLEAN
    /\ dump \in Dumps
    /\ page_index = 0
    /\ pc = "pages"
    /\ newest_revision = None
    /\ is_last_revision = FALSE
    /\ revisions_list = <<>>
    /\ page = NoPage
    /\ stats = ZeroStats
    /\ output = <<>>
    /\ twin_stats = ZeroStats
    /\ twin_break = FALSE
    /\ TokensInit

----------------------------------------------------------------------------
\* Actions.

\* The page loop finds the dump exhausted: extract_pages returns.
DumpExhausted ==
    /\ pc = "pages"
    /\ page_index = Len(dump)
    /\ pc' = "done"
    /\ UNCHANGED tokens_vars
    /\ UNCHANGED <<flags, dump, page_index, newest_revision, is_last_revision,
                   revisions_list, page, stats, output, twin_stats, twin_break>>

\* SkipPage with the skipped page counted in pages_analyzed.
SkipPage_CountsPage ==
    /\ pc = "pages"
    /\ page_index < Len(dump)
    /\ dump[page_index + 1].namespace # 3
    /\ page_index' = page_index + 1
    /\ dump' = consumed(dump, page_index)
    /\ newest_revision' = None
    /\ is_last_revision' = FALSE
    /\ revisions_list' = <<>>
    /\ page' = NoPage
    /\ stats' = [stats EXCEPT !.performance.pages_analyzed = @ + 1]
    /\ UNCHANGED tokens_vars
    /\ UNCHANGED <<flags, pc, output, twin_stats, twin_break>>

\* The next page is not a user-talk page: it is skipped.
SkipPage ==
    /\ pc = "pages"
    /\ page_index < Len(dump)
    /\ dump[page_index + 1].namespace # 3
    /\ page_index' = page_index + 1
    /\ dump' = consumed(dump, page_index)
    /\ newest_revision' = None
    /\ is_last_revision' = FALSE
    /\ revisions_list' = <<>>
    /\ page' = NoPage
    /\ UNCHANGED tokens_vars
    /\ UNCHANGED <<flags, pc, stats, output, twin_stats, twin_break>>

\* StartPage with revisions_analyzed counted once per page before the loop.
StartPage_CountsRevision ==
    /\ pc = "pages"
    /\ page_index < Len(dump)
    /\ dump[page_index + 1].namespace = 3
    /\ page_index' = page_index + 1
    /\ dump' = consumed(dump, page_index)
    /\ pc' = "revisions"
    /\ newest_revision' = None
    /\ is_last_revision' = FALSE
    /\ revisions_list' = <<>>
    /\ page' = NoPage
    /\ stats' = revision_analyzed(stats)
    /\ UNCHANGED tokens_vars
    /\ UNCHANGED <<flags, output, twin_stats, twin_break>>

\* The next page is a user-talk page: extract_revisions starts on it.
StartPage ==
    /\ pc = "pages"
    /\ page_index < Len(dump)
    /\ dump[page_index + 1].namespace = 3
    /\ page_index' = page_index + 1
    /\ dump' = consumed(dump, page_index)
    /\ pc' = "revisions"
    /\ newest_revision' = None
    /\ is_last_revision' = FALSE
    /\ revisions_list' = <<>>
    /\ page' = NoPage
    /\ UNCHANGED tokens_vars
    /\ UNCHANGED <<flags, stats, output, twin_stats, twin_break>>

\* ScanRevision with revisions_analyzed counted only for yielded revisions.
ScanRevision_CountsYielded ==
    /\ pc = "revisions"
    /\ ~is_last_revision
    /\ Len(dump[page_index].revisions) < MaxRevs
    /\ \E timestamp \in Timestamps, text \in Texts, is_last \in BOOLEAN :
        /\ (Len(dump[page_index].revisions) + 1 = MaxRevs) => is_last
        /\ LET mw_revision == [id |-> Len(dump[page_index].revisions) + 1,
                               timestamp |-> timestamp, text |-> text]
               rev == Revision(mw_revision)
               newest == NewestRevision(newest_revision, rev)
               yielded == YieldedRevisions(only_last_revision,
                                           only_revisions_with_user_warnings,
                                           newest, rev, is_last)
           IN  /\ dump' = [dump EXCEPT ![page_index].revisions =
                                            Append(@, mw_revision)]
               /\ newest_revision' = newest
               /\ is_last_revision' = is_last
               /\ stats' = IF yielded = <<>> THEN stats
                           ELSE revision_analyzed(stats)
               /\ twin_stats' = IF twin_break \/ yielded = <<>> THEN twin_stats
                                ELSE revision_analyzed(twin_stats)
               /\ revisions_list' = revisions_list \o yielded
    /\ UNCHANGED tokens_vars
    /\ UNCHANGED <<flags, page_index, pc, page, output, twin_break>>

\* One iteration of extract_revisions' loop over the revision stream.
ScanRevision ==
    /\ pc = "revisions"
    /\ ~is_last_revision
    /\ Len(dump[page_index].revisions) < MaxRevs
    /\ \E timestamp \in Timestamps, text \in Texts, is_last \in BOOLEAN :
        /\ (Len(dump[page_index].revisions) + 1 = MaxRevs) => is_last
        /\ LET mw_revision == [id |-> Len(dump[page_index].revisions) + 1,
                               timestamp |-> timestamp, text |-> text]
               rev == Revision(mw_revision)
               newest == NewestRevision(newest_revision, rev)
           IN  /\ dump' = [dump EXCEPT ![page_index].revisions =
                                            Append(@, mw_revision)]
               /\ newest_revision' = newest
               /\ is_last_revision' = is_last
               /\ stats' = revision_analyzed(stats)
               /\ twin_stats' = IF twin_break THEN twin_stats
                                ELSE revision_analyzed(twin_stats)
               /\ revisions_list' = revisions_list \o
                     YieldedRevisions(only_last_revision,
                                      only_revisions_with_user_warnings,
                                      newest, rev, is_last)
    /\ UNCHANGED tokens_vars
    /\ UNCHANGED <<flags, page_index, pc, page, output, twin_break>>

\* The revision stream has ended: the rest of the page loop's iteration.
FinishPage ==
    /\ pc = "revisions"
    /\ dump[page_index].revisions = <<>> \/ is_last_revision
    /\ page' = [id |-> dump[page_index].id,
                namespace |-> dump[page_index].namespace,
                revisions |-> revisions_list]
    /\ stats' = page_done(stats, revisions_list, only_pages_with_user_warnings)
    /\ output' = IF page_yielded(n_occurr(revisions_list),
                                 only_pages_with_user_warnings)
                 THEN Append(output, dump[page_index].id)
                 ELSE output
    /\ pc' = IF loop_break(stats') THEN "done" ELSE "pages"
    /\ twin_stats' = IF twin_break THEN twin_stats
                     ELSE page_done(twin_stats, revisions_list,
                                    ~only_pages_with_user_warnings)
    /\ twin_break' = (twin_break \/ loop_break(twin_stats'))
    /\ UNCHANGED tokens_vars
    /\ UNCHANGED <<flags, dump, page_index, newest_revision, is_last_revision,
                   revisions_list>>

Next ==
    \/ DumpExhausted
    \/ SkipPage
    \/ StartPage
    \/ ScanRevision
    \/ FinishPage

Spec == Init /\ [][Next]_vars

----------------------------------------------------------------------------
\* extract_templates_words and build_trie.

\* Words a token file may list for a template.
Words == {"w1", "w2"}

\* Entries of a line's 'revisions' list; BrokenRevision lacks the
\* 'words_to_search' key, so reading it raises.
Snapshot1 == [words_to_search |-> <<"w1">>, timestamp |-> <<0, 1>>]

Snapshot2 == [words_to_search |-> <<"w1", "w2">>, timestamp |-> <<0, 2>>]

BrokenRevision == [timestamp |-> <<0, 1>>]

\* The 'revisions' lists a line may carry.
LineRevisions ==
    {<<Snapshot1>>, <<Snapshot2, Snapshot1>>,
     <<Snapshot1, BrokenRevision, Snapshot2>>, <<BrokenRevision>>}

\* Lines of a token file: a line json.loads rejects (or without a title), or
\* an object with a title and a 'revisions' list.
Lines ==
    {[parses |-> FALSE, title |-> "", revisions |-> <<>>]} \cup
    [parses : {TRUE}, title : TemplateNames, revisions : LineRevisions]

\* Contents of a token file.
Files == UNION {[1..n -> Lines] : n \in 0..MaxLines}

\* d[key] = value on a dict.
assign(d, key, value) ==
    [k \in DOMAIN d \cup {key} |-> IF k = key THEN value ELSE d[k]]

RECURSIVE append_revisions(_, _, _)
\* The loop over a line's revisions: the dictionary it leaves and whether it
\* raised.
append_revisions(dictionary, title, revisions) ==
    IF revisions = <<>>
    THEN [dictionary |-> dictionary, raised |-> FALSE]
    ELSE IF "words_to_search" \notin DOMAIN Head(revisions)
         THEN [dictionary |-> dictionary, raised |-> TRUE]
         ELSE append_revisions(
                 [dictionary EXCEPT ![title] =
                     Append(@, <<Head(revisions).words_to_search,
                                 Head(revisions).timestamp>>)],
                 title, Tail(revisions))

\* read_line with the title's list kept when the title is already a key.
read_line_Merge(dictionary, line) ==
    IF ~line.parses
    THEN [dictionary |-> dictionary, raised |-> TRUE]
    ELSE append_revisions(
            IF line.title \in DOMAIN dictionary THEN dictionary
            ELSE assign(dictionary, line.title, <<>>),
            line.title, line.revisions)

\* The body of the line loop on one line: the dictionary it leaves and
\* whether it raised.
read_line(dictionary, line) ==
    IF ~line.parses
    THEN [dictionary |-> dictionary, raised |-> TRUE]
    ELSE append_revisions(assign(dictionary, line.title, <<>>),
                          line.title, line.revisions)

\* Automaton.add_word(word, value): the automaton is dict-like, one value per
\* key, and a key added again has its value replaced.
add_word(automaton, word, value) == assign(automaton, word, value)

RECURSIVE add_words(_, _, _)
\* The loop over the words of one snapshot.
add_words(automaton, template, words_list) ==
    IF words_list = <<>> THEN automaton
    ELSE add_words(add_word(automaton, Head(words_list),
                            <<template, Head(words_list)>>),
                   template, Tail(words_list))

RECURSIVE add_snapshots(_, _, _)
\* The loop over the snapshots of one template.
add_snapshots(automaton, template, snapshots) ==
    IF snapshots = <<>> THEN automaton
    ELSE add_snapshots(add_words(automaton, template, Head(snapshots)[1]),
                       template, Tail(snapshots))

RECURSIVE add_templates(_, _, _)
\* The loop over the templates of the dictionary, taken in the given order.
add_templates(automaton, dictionary, order) ==
    IF order = <<>> THEN automaton
    ELSE add_templates(
            add_snapshots(automaton, Head(order), dictionary[Head(order)]),
            dictionary, Tail(order))

\* The orders in which iterating a dict may give its keys.
key_orders(d) ==
    {order \in [1..Cardinality(DOMAIN d) -> DOMAIN d] :
        \A i, j \in DOMAIN order : i # j => order[i] # order[j]}

\* The state of the page scan while the token files are read.
PagesIdle ==
    /\ only_last_revision = FALSE
    /\ only_pages_with_user_warnings = FALSE
    /\ only_revisions_with_user_warnings = FALSE
    /\ dump = <<>>
    /\ page_index = 0
    /\ pc = "pages"
    /\ newest_revision = None
    /\ is_last_revision = FALSE
    /\ revisions_list = <<>>
    /\ page = NoPage
    /\ stats = ZeroStats
    /\ output = <<>>
    /\ twin_stats = ZeroStats
    /\ twin_break = FALSE

InitTokens == TokensInit /\ PagesIdle

\* The file loop opens the next token file.
OpenFile ==
    /\ tokens_pc = "files"
    /\ files_opened < MaxFiles
    /\ \E content \in Files : file' = content
    /\ files_opened' = files_opened + 1
    /\ line_index' = 0
    /\ tokens_pc' = "lines"
    /\ UNCHANGED <<template_dictionary, trie>>
    /\ UNCHANGED pages_vars

\* ReadLine with the try/except around each line instead of around the loop.
ReadLine_SkipsLine ==
    /\ tokens_pc = "lines"
    /\ line_index < Len(file)
    /\ template_dictionary' =
          read_line(template_dictionary, file[line_index + 1]).dictionary
    /\ line_index' = line_index + 1
    /\ UNCHANGED <<files_opened, file, tokens_pc, trie>>
    /\ UNCHANGED pages_vars

\* One iteration of the line loop; an exception ends the loop and the file is
\* closed.
ReadLine ==
    /\ tokens_pc = "lines"
    /\ line_index < Len(file)
    /\ LET result == read_line(template_dictionary, file[line_index + 1])
       IN  /\ template_dictionary' = result.dictionary
           /\ tokens_pc' = IF result.raised THEN "files" ELSE "lines"
    /\ line_index' = line_index + 1
    /\ UNCHANGED <<files_opened, file, trie>>
    /\ UNCHANGED pages_vars

\* The line loop finds the file exhausted: the file is closed.
CloseFile ==
    /\ tokens_pc = "lines"
    /\ line_index = Len(file)
    /\ tokens_pc' = "files"
    /\ UNCHANGED <<files_opened, file, line_index, template_dictionary, trie>>
    /\ UNCHANGED pages_vars

\* The file loop finds no more files: extract_templates_words returns.
ReturnDictionary ==
    /\ tokens_pc = "files"
    /\ files_opened >= 1
    /\ tokens_pc' = "trie"
    /\ UNCHANGED <<files_opened, file, line_index, template_dictionary, trie>>
    /\ UNCHANGED pages_vars

\* build_trie on the dictionary.
BuildTrie ==
    /\ tokens_pc = "trie"
    /\ \E order \in key_orders(template_dictionary) :
          trie' = add_templates(trie, template_dictionary, order)
    /\ tokens_pc' = "done"
    /\ UNCHANGED <<files_opened, file, line_index, template_dictionary>>
    /\ UNCHANGED pages_vars

NextTokens ==
    \/ OpenFile
    \/ ReadLine
    \/ CloseFile
    \/ ReturnDictionary
    \/ BuildTrie

SpecTokens == InitTokens /\ [][NextTokens]_vars

----------------------------------------------------------------------------
\* Vocabulary of the properties.

\* The revisions read so far of the page being handled.
Scanned == IF page_index = 0 THEN <<>> ELSE dump[page_index].revisions

\* The Revision objects of the revisions read so far, in dump order.
ScannedRevisions == [i \in DOMAIN Scanned |-> Revision(Scanned[i])]

\* The final revision of a page with at least one revision has been scanned.
PageComplete == Scanned # <<>> /\ is_last_revision

\* The dump-order-last revision read so far.
DumpLast == ScannedRevisions[Len(Scanned)]

\* The position of the timestamp-newest revision read so far, the earliest in
\* dump order among those sharing the greatest timestamp.
NewestIndex ==
    CHOOSE i \in DOMAIN Scanned :
        /\ \A j \in DOMAIN Scanned : Scanned[j].timestamp <= Scanned[i].timestamp
        /\ \A j \in 1..(i - 1) : Scanned[j].timestamp < Scanned[i].timestamp

\* The timestamp-newest revision read so far.
TimestampNewest == ScannedRevisions[NewestIndex]

\* The timestamps of the page are out of dump order: the dump-order-last
\* revision read so far is older than the timestamp-newest one.
NewestIsNotLast ==
    Scanned[Len(Scanned)].timestamp < Scanned[NewestIndex].timestamp

\* Some revision of revs has a non-empty match list.
HasMatch(revs) == \E i \in DOMAIN revs : revs[i].templates # <<>>

\* The template names matched in some revision of revs.
MatchedNames(revs) ==
    {name \in TemplateNames :
        \E i \in DOMAIN revs : \E j \in DOMAIN revs[i].templates :
            revs[i].templates[j] = name}

\* The count template_recognized holds for a name (0 when it has no entry).
Recognized(st, name) ==
    IF name \in DOMAIN st.user_warnings_stats.template_recognized
    THEN st.user_warnings_stats.template_recognized[name]
    ELSE 0

\* The ids of the user-talk pages of the dump, in dump order.
UserTalkIds ==
    LET talk == SelectSeq(dump, LAMBDA p : p.namespace = 3)
    IN  [i \in DOMAIN talk |-> talk[i].id]

\* The step is the end of a page's iteration of the page loop.
PageHandled == pc = "revisions" /\ pc' # "revisions"

----------------------------------------------------------------------------
\* Properties.

\* C1 (as stated): with only_last_revision set and
\* only_revisions_with_user_warnings unset, when the timestamp-newest
\* revision of a page is not its dump-order-last one, the single revision
\* emitted is the dump-order-last revision.
C1_EmitsDumpOrderLast ==
    (/\ only_last_revision
     /\ ~only_revisions_with_user_warnings
     /\ PageComplete
     /\ NewestIsNotLast)
    => revisions_list = <<DumpLast>>

\* C1 (amended): with only_last_revision set and
\* only_revisions_with_user_warnings unset, when the timestamp-newest
\* revision of a page is not its dump-order-last one, the single revision
\* emitted is the timestamp-newest revision (the earliest in dump order among
\* those sharing the greatest timestamp), not the dump-order-last one.
C1_EmitsTimestampNewest ==
    (/\ only_last_revision
     /\ ~only_revisions_with_user_warnings
     /\ PageComplete
     /\ NewestIsNotLast)
    => /\ revisions_list = <<TimestampNewest>>
       /\ revisions_list # <<DumpLast>>

C1_Witness ==
    /\ only_last_revision
    /\ ~only_revisions_with_user_warnings
    /\ PageComplete
    /\ NewestIsNotLast
    /\ revisions_list = <<TimestampNewest>>

\* C2 (as stated): with only_pages_with_user_warnings unset, when
\* extract_pages has finished it has emitted exactly one page for every
\* namespace-3 page of the dump, in dump order.
C2_EveryUserTalkPageEmitted ==
    (pc = "done" /\ ~only_pages_with_user_warnings) => output = UserTalkIds

\* C3: with only_last_revision and only_revisions_with_user_warnings both
\* set, nothing is emitted before the final revision of the page has been
\* scanned, and from then on one revision is emitted if and only if the
\* timestamp-newest revision of the page has a non-empty match list.
C3_LastWithWarningsGatedByNewest ==
    (only_last_revision /\ only_revisions_with_user_warnings)
    => /\ ~is_last_revision => revisions_list = <<>>
       /\ PageComplete =>
            /\ Len(revisions_list) <= 1
            /\ revisions_list # <<>> <=> TimestampNewest.templates # <<>>

C3_Witness ==
    /\ only_last_revision
    /\ only_revisions_with_user_warnings
    /\ PageComplete
    /\ DumpLast.templates = <<>>
    /\ TimestampNewest.templates # <<>>
    /\ Len(revisions_list) = 1

\* C4: with only_last_revision set the revision list retained for a page
\* never has more than one element; if only_revisions_with_user_warnings is
\* unset as well, it is empty until the final revision of the page has been
\* scanned and has exactly one element from then on.
C4_LastRevisionAtMostOne ==
    only_last_revision
    => /\ Len(revisions_list) <= 1
       /\ Len(page.revisions) <= 1
       /\ ~only_revisions_with_user_warnings
          => /\ ~is_last_revision => revisions_list = <<>>
             /\ PageComplete => Len(revisions_list) = 1

C4_Witness ==
    /\ only_last_revision
    /\ ~only_revisions_with_user_warnings
    /\ pc = "pages"
    /\ PageComplete
    /\ Len(Scanned) >= 2
    /\ Len(page.revisions) = 1

\* C5: with only_last_revision and only_revisions_with_user_warnings both
\* unset, the retained list is at every point the revisions scanned so far,
\* each once and in dump order.
C5_EveryRevisionInDumpOrder ==
    (~only_last_revision /\ ~only_revisions_with_user_warnings)
    => /\ Len(revisions_list) = Len(Scanned)
       /\ \A i \in DOMAIN Scanned : revisions_list[i].id = Scanned[i].id
       /\ revisions_list = ScannedRevisions

C5_Witness ==
    /\ ~only_last_revision
    /\ ~only_revisions_with_user_warnings
    /\ PageComplete
    /\ Len(Scanned) >= 2
    /\ NewestIndex # Len(Scanned)
    /\ Len(revisions_list) = Len(Scanned)

\* C6: with only_last_revision unset and only_revisions_with_user_warnings
\* set, the retained list is the subsequence, in dump order, of the revisions
\* scanned so far whose own match list is non-empty.
C6_OwnMatchesGate ==
    (~only_last_revision /\ only_revisions_with_user_warnings)
    => revisions_list =
         SelectSeq(ScannedRevisions, LAMBDA r : r.templates # <<>>)

C6_Witness ==
    /\ ~only_last_revision
    /\ only_revisions_with_user_warnings
    /\ PageComplete
    /\ TimestampNewest.templates # <<>>
    /\ DumpLast.templates = <<>>
    /\ Len(revisions_list) = 1

\* C7: handling a page adds exactly 1 to template_recognized[name] for each
\* template name matched in at least one retained revision of the page and 0
\* for every other name, however many retained revisions match the name; no
\* other step changes the counts.
C7_RecognizedOncePerPage ==
    [][\A name \in TemplateNames :
         Recognized(stats', name) =
            Recognized(stats, name) +
            (IF PageHandled /\ name \in MatchedNames(revisions_list)
             THEN 1 ELSE 0)]_vars

C7_Witness ==
    /\ pc = "done"
    /\ Len(page.revisions) >= 2
    /\ \A i \in DOMAIN page.revisions : "t1" \in MatchedNames(<<page.revisions[i]>>)
    /\ "t2" \notin MatchedNames(page.revisions)
    /\ Recognized(stats, "t1") = 1
    /\ Recognized(stats, "t2") = 0

\* C8 (as stated): when extract_pages has finished, pages_analyzed is the
\* number of namespace-3 pages it took from the dump and scanned.
C8_PagesAnalyzedCountsEveryPage ==
    pc = "done"
    => stats.performance.pages_analyzed =
         Cardinality({i \in 1..page_index : dump[i].namespace = 3})

\* C9: handling a page whose retained revisions contain a match adds exactly
\* 1 to total (and 0 otherwise) whatever only_pages_with_user_warnings is,
\* and the run over the same dump with that flag negated has at every point
\* the same total, template_recognized and revisions_analyzed.
C9_TotalIndependentOfPageFilter ==
    [][/\ stats'.user_warnings_stats.total =
            stats.user_warnings_stats.total +
            (IF PageHandled /\ HasMatch(revisions_list) THEN 1 ELSE 0)
       /\ stats'.user_warnings_stats = twin_stats'.user_warnings_stats
       /\ stats'.performance.revisions_analyzed =
            twin_stats'.performance.revisions_analyzed]_vars

C9_Witness ==
    /\ pc = "done"
    /\ ~only_pages_with_user_warnings
    /\ output = <<1, 2>>
    /\ stats.user_warnings_stats.total = 1
    /\ twin_stats.user_warnings_stats.total = 1
    /\ stats.performance.revisions_analyzed > 1

\* C10: with only_pages_with_user_warnings set, a page that has been emitted
\* has at least one retained revision with a non-empty match list.
C10_EmittedPagesHaveWarnings ==
    (/\ only_pages_with_user_warnings
     /\ output # <<>>
     /\ page.id = output[Len(output)])
    => HasMatch(page.revisions)

C10_Witness ==
    /\ only_pages_with_user_warnings
    /\ pc = "done"
    /\ Len(dump) = 2
    /\ dump[1].namespace = 3
    /\ output = <<2>>
    /\ HasMatch(page.revisions)

\* The step scans one more revision of the current page.
RevisionScanned ==
    /\ page_index' = page_index
    /\ page_index > 0
    /\ Len(dump'[page_index].revisions) = Len(dump[page_index].revisions) + 1

\* The step takes the next page of the dump and finds it outside namespace 3.
PageSkipped ==
    /\ pc = "pages"
    /\ page_index' = page_index + 1
    /\ dump[page_index + 1].namespace # 3

\* C11: a page whose namespace is not 3 is discarded before any of its
\* revisions is read: the step that takes it leaves revisions_analyzed,
\* pages_analyzed, total, template_recognized and the output unchanged and
\* returns to the top of the page loop, and no such page is ever emitted.
C11_OtherNamespacesSkipped ==
    [][/\ PageSkipped
          => /\ stats' = stats
             /\ output' = output
             /\ pc' = "pages"
             /\ dump'[page_index'].revisions = <<>>
             /\ revisions_list' = <<>>
       /\ \A k \in DOMAIN output' : dump'[output'[k]].namespace = 3]_vars

C11_Witness ==
    /\ pc = "pages"
    /\ page_index = 2
    /\ dump[1].namespace = 3
    /\ dump[2].namespace # 3
    /\ output = <<1>>
    /\ stats.performance.pages_analyzed = 1
    /\ stats.performance.revisions_analyzed > 0

\* C14: a page with zero revisions is handled by starting the scan and
\* ending it at once: under every combination of the flags no revision is
\* retained for it and neither step changes revisions_analyzed.
C14_EmptyPageYieldsNothing ==
    [][/\ (pc = "pages" /\ pc' = "revisions")
          => stats'.performance.revisions_analyzed =
                stats.performance.revisions_analyzed
       /\ (PageHandled /\ Scanned = <<>>)
          => /\ revisions_list = <<>>
             /\ page'.revisions = <<>>
             /\ stats'.performance.revisions_analyzed =
                   stats.performance.revisions_analyzed]_vars

C14_Witness ==
    /\ pc = "pages"
    /\ page_index = 2
    /\ dump[2].namespace = 3
    /\ Scanned = <<>>
    /\ page.id = 2
    /\ page.revisions = <<>>
    /\ stats.performance.revisions_analyzed > 0
    /\ stats.performance.pages_analyzed = 2

\* C15: once total is positive extract_pages has left the page loop, so in
\* every reachable state total is at most 1 and every template_recognized
\* count is at most 1.
C15_StopsAfterFirstMatch ==
    /\ stats.user_warnings_stats.total > 0 => pc = "done"
    /\ stats.user_warnings_stats.total <= 1
    /\ \A name \in TemplateNames : Recognized(stats, name) <= 1

C15_Witness ==
    /\ pc = "done"
    /\ stats.user_warnings_stats.total = 1
    /\ page_index < Len(dump)
    /\ dump[page_index + 1].namespace = 3

\* C16: after any non-empty prefix of a page's revisions has been scanned,
\* the held newest revision is the revision of that prefix with the greatest
\* timestamp, the earliest in dump order among those sharing it.
C16_HeldNewestIsFirstMaximum ==
    Scanned # <<>>
    => /\ newest_revision = TimestampNewest
       /\ \A i \in DOMAIN Scanned :
            fromisoformat(ScannedRevisions[i].timestamp)
                <= fromisoformat(newest_revision.timestamp)

C16_Witness ==
    /\ Len(Scanned) >= 2
    /\ Scanned[1].timestamp = Scanned[2].timestamp
    /\ Scanned[1].timestamp = MaxTime
    /\ newest_revision.id = 1

\* C17: revisions_analyzed grows by exactly 1 in every step that scans a
\* revision, whether or not the revision is emitted, and in no other step;
\* while the first page taken is the current one it equals the number of
\* revisions scanned of that page.
C17_EveryRevisionCounted ==
    [][/\ stats'.performance.revisions_analyzed =
            stats.performance.revisions_analyzed +
            (IF RevisionScanned THEN 1 ELSE 0)
       /\ page_index' = 1
          => stats'.performance.revisions_analyzed =
                Len(dump'[1].revisions)]_vars

C17_Witness ==
    /\ only_last_revision
    /\ only_revisions_with_user_warnings
    /\ PageComplete
    /\ Len(Scanned) = 2
    /\ revisions_list = <<>>
    /\ stats.performance.revisions_analyzed = 2

----------------------------------------------------------------------------
\* Vocabulary of the properties of the token files.

\* The line the next iteration of the line loop reads.
CurrentLine == file[line_index + 1]

\* The step is an iteration of the line loop.
LineRead == tokens_pc = "lines" /\ line_index' = line_index + 1

\* A line that parses and whose revisions all carry their words.
WellFormed(line) ==
    /\ line.parses
    /\ \A i \in DOMAIN line.revisions :
          "words_to_search" \in DOMAIN line.revisions[i]

\* The revisions of a line that come before its first broken one.
GoodPrefix(revisions) ==
    LET broken == {i \in DOMAIN revisions :
                      "words_to_search" \notin DOMAIN revisions[i]}
        n == IF broken = {} THEN Len(revisions)
             ELSE (CHOOSE i \in broken : \A j \in broken : i <= j) - 1
    IN  SubSeq(revisions, 1, n)

\* The snapshots a list of unbroken revisions stands for.
SnapshotsOf(revisions) ==
    [i \in DOMAIN revisions |->
        <<revisions[i].words_to_search, revisions[i].timestamp>>]

\* The values the automaton associates with a word.
Associated(automaton, word) ==
    IF word \in DOMAIN automaton THEN {automaton[word]} ELSE {}

\* C12 (as stated): every well-formed line of a file that has been handled,
\* the lines after a malformed line included, has contributed its template
\* entry to the dictionary.
C12_EveryWellFormedLineContributes ==
    (tokens_pc = "files" /\ files_opened >= 1)
    => \A i \in DOMAIN file :
          WellFormed(file[i]) => file[i].title \in DOMAIN template_dictionary

\* C13 (as stated): after build_trie, the automaton associates every word of
\* every snapshot of every template with the pair (template, word) inserted
\* for it, also when the word was inserted for several templates.
C13_AllPairsKept ==
    tokens_pc = "done"
    => \A template \in DOMAIN template_dictionary :
          \A i \in DOMAIN template_dictionary[template] :
             \A k \in DOMAIN template_dictionary[template][i][1] :
                <<template, template_dictionary[template][i][1][k]>>
                   \in Associated(trie, template_dictionary[template][i][1][k])

C19_LastLineWins ==
    [][LineRead
       => IF CurrentLine.parses
          THEN /\ DOMAIN template_dictionary' =
                     DOMAIN template_dictionary \cup {CurrentLine.title}
               /\ template_dictionary'[CurrentLine.title] =
                     SnapshotsOf(GoodPrefix(CurrentLine.revisions))
               /\ \A title \in DOMAIN template_dictionary :
                     title # CurrentLine.title
                     => template_dictionary'[title] = template_dictionary[title]
          ELSE template_dictionary' = template_dictionary]_vars

C19_Witness ==
    /\ tokens_pc = "lines"
    /\ Len(file) = 2
    /\ line_index = 2
    /\ file[1].title = file[2].title
    /\ file[1].revisions = <<Snapshot2, Snapshot1>>
    /\ file[2].revisions = <<Snapshot1>>
    /\ template_dictionary[file[2].title] = SnapshotsOf(<<Snapshot1>>)

====
